---- MODULE Spec2Model ----
(***************************************************************************)
(* Model of the Gmail client library: loadGmailConfig (src/gmail/config.ts)*)
(* and fetchAccessToken, listMessages, getMessage (src/gmail/client.ts and *)
(* the later revision of that file, unnamed/part_004).                     *)
(*                                                                         *)
(* A string is a sequence of symbols; a symbol is one character or one     *)
(* fixed piece of text of the program (a message prefix, a variable name). *)
(* Concatenation is \o and "contains" is the substring relation.           *)
(* An optional value (string | undefined) is <<>> when undefined and <<s>> *)
(* when it is the string s.                                                *)
(***************************************************************************)
EXTENDS Integers, Sequences, FiniteSets, TLC

VARIABLES env, loaded, nLoads, cli, call, nCalls, nRequests, pool

vars == <<env, loaded, nLoads, cli, call, nCalls, nRequests, pool>>

(***************************************************************************)
(* Bounds                                                                  *)
(***************************************************************************)
MaxBlank == 2
MaxCalls == 2
MaxOver == 2
MaxNeg == 1
MaxMsgs == 2
MaxLoads == 2
NumCallers == 2

(***************************************************************************)
(* Strings                                                                 *)
(***************************************************************************)
Undefined == <<>>
Some(s) == <<s>>

IsWhitespace(c) == c = " "

RECURSIVE TrimStart(_)
TrimStart(s) ==
  IF s # <<>> /\ IsWhitespace(Head(s)) THEN TrimStart(Tail(s)) ELSE s

RECURSIVE TrimEnd(_)
TrimEnd(s) ==
  IF s # <<>> /\ IsWhitespace(s[Len(s)])
  THEN TrimEnd(SubSeq(s, 1, Len(s) - 1))
  ELSE s

Trim(s) == TrimEnd(TrimStart(s))

RECURSIVE Join(_, _)
Join(parts, sep) ==
  IF parts = <<>> THEN <<>>
  ELSE IF Len(parts) = 1 THEN parts[1]
  ELSE parts[1] \o sep \o Join(Tail(parts), sep)

Contains(s, sub) ==
  \E i \in 0..(Len(s) - Len(sub)) : SubSeq(s, i + 1, i + Len(sub)) = sub

StartsWith(s, pre) ==
  Len(pre) <= Len(s) /\ SubSeq(s, 1, Len(pre)) = pre

(***************************************************************************)
(* Outcomes of an operation                                                *)
(***************************************************************************)
NoOutcome == [kind |-> "none", value |-> <<>>]
Return(v) == [kind |-> "return", value |-> v]
Throw(msg) == [kind |-> "throw", value |-> msg]

(***************************************************************************)
(* loadGmailConfig                                                         *)
(***************************************************************************)
RequiredNames ==
  <<"GOOGLE_CLIENT_ID", "GOOGLE_CLIENT_SECRET", "GOOGLE_REFRESH_TOKEN",
    "GMAIL_USER_EMAIL">>

OptionalNames == <<"GMAIL_LABEL_INTAKE", "GMAIL_LABEL_PROCESSED", "GMAIL_QUERY">>

Range(f) == {f[i] : i \in DOMAIN f}

EnvNames == Range(RequiredNames) \cup Range(OptionalNames)

Blanks(k) == [i \in 1..k |-> " "]

\* the all-blank strings of at most MaxBlank symbols (the empty string
\* included) and non-blank strings with and without surrounding blanks
EnvStrings ==
  {Blanks(k) : k \in 0..MaxBlank} \cup {<<"x">>, <<" ", "x">>, <<"x", " ">>}

RequiredValues == {Undefined} \cup {Some(s) : s \in EnvStrings}

OptionalValues == {Undefined, Some(<<>>), Some(<<"x">>)}

Environments ==
  {req @@ opt : req \in [Range(RequiredNames) -> RequiredValues],
                opt \in [Range(OptionalNames) -> OptionalValues]}

\* plausible slip: only unset variables count as missing
IsMissingUnsetOnly(v) == v = Undefined

\* plausible slip: the value is compared with ' ' instead of being trimmed
IsMissingOneBlank(v) == v = Undefined \/ v[1] = <<>> \/ v[1] = <<" ">>

\* config.ts:45  !v.value || v.value.trim() === ''
IsMissing(v) == v = Undefined \/ v[1] = <<>> \/ Trim(v[1]) = <<>>

\* plausible slip: the trim() test is forgotten
missingNoTrim(e) ==
  SelectSeq(RequiredNames, LAMBDA n : e[n] = Undefined \/ e[n][1] = <<>>)

missing(e) == SelectSeq(RequiredNames, LAMBDA n : IsMissing(e[n]))

MissingMessage(names) ==
  <<"Missing required environment variables: ">>
    \o Join([i \in DOMAIN names |-> <<names[i]>>], <<", ">>)

\* plausible slip: optional fields default to '' (process.env.X || '')
loadGmailConfigDefaults(e) ==
  IF Len(missing(e)) > 0
  THEN Throw(MissingMessage(missing(e)))
  ELSE LET orEmpty(v) == IF v = Undefined THEN Some(<<>>) ELSE v
       IN Return([clientId |-> e["GOOGLE_CLIENT_ID"][1],
                  clientSecret |-> e["GOOGLE_CLIENT_SECRET"][1],
                  refreshToken |-> e["GOOGLE_REFRESH_TOKEN"][1],
                  userEmail |-> e["GMAIL_USER_EMAIL"][1],
                  intakeLabel |-> orEmpty(e["GMAIL_LABEL_INTAKE"]),
                  processedLabel |-> orEmpty(e["GMAIL_LABEL_PROCESSED"]),
                  query |-> orEmpty(e["GMAIL_QUERY"])])

loadGmailConfig(e) ==
  IF Len(missing(e)) > 0
  THEN Throw(MissingMessage(missing(e)))
  ELSE Return([clientId |-> e["GOOGLE_CLIENT_ID"][1],
               clientSecret |-> e["GOOGLE_CLIENT_SECRET"][1],
               refreshToken |-> e["GOOGLE_REFRESH_TOKEN"][1],
               userEmail |-> e["GMAIL_USER_EMAIL"][1],
               intakeLabel |-> e["GMAIL_LABEL_INTAKE"],
               processedLabel |-> e["GMAIL_LABEL_PROCESSED"],
               query |-> e["GMAIL_QUERY"]])

(***************************************************************************)
(* JSON values of a parsed response payload.  An object is a function from *)
(* the names of the fields it has to their values.                         *)
(***************************************************************************)
JUndefined == [t |-> "undefined", v |-> <<>>]
JNull == [t |-> "null", v |-> <<>>]
JStr(s) == [t |-> "string", v |-> s]
JArr(items) == [t |-> "array", v |-> items]

EmptyObject == [f \in {} |-> JUndefined]

\* property access obj.f : undefined when the object has no such field
Get(obj, f) == IF f \in DOMAIN obj THEN obj[f] ELSE JUndefined

\* the values x for which !x is true
Falsy(x) == x.t \in {"undefined", "null"} \/ (x.t = "string" /\ x.v = <<>>)

StringifyValue(x) ==
  IF x.t = "string" THEN <<"\"">> \o x.v \o <<"\"">> ELSE <<x.t>>

RECURSIVE StringifyFields(_, _)
StringifyFields(obj, names) ==
  IF names = <<>> THEN <<>>
  ELSE LET rest == StringifyFields(obj, Tail(names))
           this == <<"\"", Head(names), "\"", ":">> \o StringifyValue(obj[Head(names)])
       IN IF Head(names) \notin DOMAIN obj THEN rest
          ELSE IF rest = <<>> THEN this
          ELSE this \o <<",">> \o rest

\* JSON.stringify of a token payload
Stringify(obj) ==
  <<"{">> \o StringifyFields(obj, <<"access_token", "error">>) \o <<"}">>

ToStr(n) == <<ToString(n)>>

(***************************************************************************)
(* Percent-encoding                                                        *)
(***************************************************************************)
EncodeSymbol(c) ==
  CASE c = "@" -> <<"%40">>
    [] c = "/" -> <<"%2F">>
    [] c = ":" -> <<"%3A">>
    [] c = " " -> <<"%20">>
    [] OTHER -> <<c>>

RECURSIVE encodeURIComponent(_)
encodeURIComponent(s) ==
  IF s = <<>> THEN <<>>
  ELSE EncodeSymbol(Head(s)) \o encodeURIComponent(Tail(s))

FormEncodeSymbol(c) == IF c = " " THEN <<"+">> ELSE EncodeSymbol(c)

RECURSIVE FormEncode(_)
FormEncode(s) ==
  IF s = <<>> THEN <<>>
  ELSE FormEncodeSymbol(Head(s)) \o FormEncode(Tail(s))

\* URLSearchParams.toString(): name=value pairs joined by &
ParamsToString(params) ==
  Join([i \in DOMAIN params |->
          <<params[i][1], "=">> \o FormEncode(params[i][2])], <<"&">>)

\* URLSearchParams.set(name, value): replace the pair of that name or append
SetParam(params, name, value) ==
  IF \E i \in DOMAIN params : params[i][1] = name
  THEN [i \in DOMAIN params |->
          IF params[i][1] = name THEN <<name, value>> ELSE params[i]]
  ELSE Append(params, <<name, value>>)

ParamValues(params, name) ==
  {params[i][2] : i \in {j \in DOMAIN params : params[j][1] = name}}

(***************************************************************************)
(* The response of the remote service, as the fetch API presents it        *)
(***************************************************************************)
\* response.ok : the status is in the range 200-299
Ok(status) == 200 <= status /\ status <= 299

\* `${response.status} ${response.statusText}\nResponse: ${body}` after the
\* operation's prefix
FailureMessage(prefix, status, statusText, body) ==
  <<prefix>> \o ToStr(status) \o <<" ">> \o statusText
    \o <<"\nResponse: ">> \o body

(***************************************************************************)
(* fetchAccessToken                                                        *)
(***************************************************************************)
fetchAccessTokenRequest(cfg) ==
  [method |-> "POST",
   url |-> <<"https://oauth2.googleapis.com/token">>,
   params |-> <<>>,
   headers |-> ("Content-Type" :> <<"application/x-www-form-urlencoded">>),
   body |-> ParamsToString(<< <<"client_id", cfg.clientId>>,
                              <<"client_secret", cfg.clientSecret>>,
                              <<"refresh_token", cfg.refreshToken>>,
                              <<"grant_type", <<"refresh_token">> >> >>)]

\* plausible slip: the response body is never read
fetchAccessTokenFailureNoBody(cfg, status, statusText, body) ==
  Throw(<<"Failed to fetch access token: ">> \o ToStr(status) \o <<" ">>
          \o statusText)

\* plausible slip: the request body is put in the message for diagnosis
fetchAccessTokenFailureWithRequest(cfg, status, statusText, body) ==
  Throw(FailureMessage("Failed to fetch access token: ", status, statusText, body)
          \o <<"\nRequest: ">> \o fetchAccessTokenRequest(cfg).body)

fetchAccessTokenFailure(cfg, status, statusText, body) ==
  Throw(FailureMessage("Failed to fetch access token: ", status, statusText, body))

\* plausible slip: a payload with an error field is refused even when it
\* carries a token
fetchAccessTokenResultErrorField(cfg, data) ==
  IF Falsy(Get(data, "access_token")) \/ "error" \in DOMAIN data
  THEN Throw(<<"Access token not found in response: ">> \o Stringify(data))
  ELSE Return(Get(data, "access_token"))

\* plausible slip: only the absence of the field is tested
fetchAccessTokenResultPresenceOnly(cfg, data) ==
  IF "access_token" \notin DOMAIN data
  THEN Throw(<<"Access token not found in response: ">> \o Stringify(data))
  ELSE Return(Get(data, "access_token"))

fetchAccessTokenResult(cfg, data) ==
  IF Falsy(Get(data, "access_token"))
  THEN Throw(<<"Access token not found in response: ">> \o Stringify(data))
  ELSE Return(Get(data, "access_token"))

(***************************************************************************)
(* listMessages                                                            *)
(***************************************************************************)
Min(a, b) == IF a < b THEN a ELSE b

\* plausible slip: the cap is the service's page maximum, not 50
maxResultsOfCap100(maxMessages) ==
  Min(IF maxMessages = Undefined THEN 10 ELSE maxMessages[1], 100)

\* maxMessages: number = 10, then Math.min(maxMessages, 50)
\* plausible slip: the limit is raised to at least one
maxResultsOfAtLeastOne(maxMessages) ==
  LET m == Min(IF maxMessages = Undefined THEN 10 ELSE maxMessages[1], 50)
  IN IF m < 1 THEN 1 ELSE m

maxResultsOf(maxMessages) ==
  Min(IF maxMessages = Undefined THEN 10 ELSE maxMessages[1], 50)

UsersUrl(cfg) ==
  <<"https://gmail.googleapis.com/gmail/v1/users/">>
    \o encodeURIComponent(cfg.userEmail)

\* if (cfg.x) : the optional field is present and not the empty string
Truthy(opt) == opt # Undefined /\ opt[1] # <<>>

\* plausible slip: the two filters are made alternatives (else if)
listMessagesParamsElseIf(cfg, maxMessages) ==
  LET p1 == SetParam(<<>>, "maxResults", ToStr(maxResultsOf(maxMessages)))
  IN IF Truthy(cfg.intakeLabel)
     THEN SetParam(p1, "labelIds", cfg.intakeLabel[1])
     ELSE IF Truthy(cfg.query) THEN SetParam(p1, "q", cfg.query[1]) ELSE p1

listMessagesParams(cfg, maxMessages) ==
  LET p1 == SetParam(<<>>, "maxResults", ToStr(maxResultsOf(maxMessages)))
      p2 == IF Truthy(cfg.intakeLabel)
            THEN SetParam(p1, "labelIds", cfg.intakeLabel[1]) ELSE p1
      p3 == IF Truthy(cfg.query)
            THEN SetParam(p2, "q", cfg.query[1]) ELSE p2
  IN p3

BearerHeaders(accessToken) == ("Authorization" :> (<<"Bearer ">> \o accessToken))

\* plausible slip: the account is put in the path as it is
listMessagesRequestPlainAccount(cfg, accessToken, maxMessages) ==
  [method |-> "GET",
   url |-> <<"https://gmail.googleapis.com/gmail/v1/users/">> \o cfg.userEmail
             \o <<"/messages">> \o <<"?">>
             \o ParamsToString(listMessagesParams(cfg, maxMessages)),
   params |-> listMessagesParams(cfg, maxMessages),
   headers |-> BearerHeaders(accessToken),
   body |-> <<>>]

listMessagesRequest(cfg, accessToken, maxMessages) ==
  [method |-> "GET",
   url |-> UsersUrl(cfg) \o <<"/messages">> \o <<"?">>
             \o ParamsToString(listMessagesParams(cfg, maxMessages)),
   params |-> listMessagesParams(cfg, maxMessages),
   headers |-> BearerHeaders(accessToken),
   body |-> <<>>]

\* plausible slip: a failed listing is downgraded to "no messages"
listMessagesFailureEmpty(cfg, accessToken, status, statusText, body) ==
  Return(<<>>)

listMessagesFailure(cfg, accessToken, status, statusText, body) ==
  Throw(FailureMessage("Failed to list messages: ", status, statusText, body))

\* plausible slip: a payload without a messages field is taken as malformed
listMessagesResultStrict(data) ==
  IF Falsy(Get(data, "messages"))
  THEN Throw(<<"Invalid list response: missing messages">>)
  ELSE Return([i \in DOMAIN Get(data, "messages").v |->
                 [id |-> Get(Get(data, "messages").v[i], "id"),
                  threadId |-> Get(Get(data, "messages").v[i], "threadId")]])

\* plausible slip: entries without an id are filtered out
listMessagesResultFiltered(data) ==
  IF Falsy(Get(data, "messages"))
  THEN Return(<<>>)
  ELSE LET kept == SelectSeq(Get(data, "messages").v,
                             LAMBDA e : ~Falsy(Get(e, "id")))
       IN Return([i \in DOMAIN kept |->
                    [id |-> Get(kept[i], "id"),
                     threadId |-> Get(kept[i], "threadId")]])

listMessagesResult(data) ==
  IF Falsy(Get(data, "messages"))
  THEN Return(<<>>)
  ELSE Return([i \in DOMAIN Get(data, "messages").v |->
                 [id |-> Get(Get(data, "messages").v[i], "id"),
                  threadId |-> Get(Get(data, "messages").v[i], "threadId")]])

(***************************************************************************)
(* getMessage: src/gmail/client.ts, and its revision in unnamed/part_004   *)
(* (named getMessageRaw here), which requests format=raw and checks the id *)
(***************************************************************************)
\* plausible slip: the id is percent-encoded like the account
getMessageRequestEncodedId(cfg, accessToken, id) ==
  [method |-> "GET",
   url |-> UsersUrl(cfg) \o <<"/messages/">>
             \o [i \in DOMAIN id |->
                   CASE id[i] = "/" -> "%2F" [] id[i] = "?" -> "%3F"
                     [] id[i] = "#" -> "%23" [] OTHER -> id[i]]
             \o <<"?format=full">>,
   params |-> <<>>,
   headers |-> BearerHeaders(accessToken),
   body |-> <<>>]

getMessageRequest(cfg, accessToken, id) ==
  [method |-> "GET",
   url |-> UsersUrl(cfg) \o <<"/messages/">> \o id \o <<"?format=full">>,
   params |-> <<>>,
   headers |-> BearerHeaders(accessToken),
   body |-> <<>>]

\* plausible slip: the request headers are put in the message
getMessageFailureWithHeaders(cfg, accessToken, status, statusText, body) ==
  Throw(FailureMessage("Failed to get message: ", status, statusText, body)
          \o <<"\nAuthorization: ">> \o BearerHeaders(accessToken)["Authorization"])

getMessageFailure(cfg, accessToken, status, statusText, body) ==
  Throw(FailureMessage("Failed to get message: ", status, statusText, body))

\* plausible slip: only the summary fields of the payload are kept
getMessageResultSummary(data) ==
  Return(("id" :> Get(data, "id")) @@ ("threadId" :> Get(data, "threadId")))

getMessageResult(data) == Return(data)

\* plausible slip: a content type is sent along with the credential
getMessageRawRequestTwoHeaders(cfg, accessToken, id) ==
  [method |-> "GET",
   url |-> UsersUrl(cfg) \o <<"/messages/">> \o id \o <<"?format=raw">>,
   params |-> <<>>,
   headers |-> BearerHeaders(accessToken)
                 @@ ("Content-Type" :> <<"application/json">>),
   body |-> <<>>]

getMessageRawRequest(cfg, accessToken, id) ==
  [method |-> "GET",
   url |-> UsersUrl(cfg) \o <<"/messages/">> \o id \o <<"?format=raw">>,
   params |-> <<>>,
   headers |-> BearerHeaders(accessToken),
   body |-> <<>>]

getMessageRawResult(data) ==
  IF Falsy(Get(data, "id"))
  THEN Throw(<<"Invalid message response: missing message ", "ID",
               " in response from Gmail API">>)
  ELSE Return(data)

(***************************************************************************)
(* Inputs: the arguments a caller passes and the responses the remote      *)
(* service gives                                                           *)
(***************************************************************************)
ClientConfigs ==
  {[clientId |-> <<"cid1">>, clientSecret |-> <<"sec1">>,
    refreshToken |-> <<"ref1">>, userEmail |-> <<"u", "@", "h">>,
    intakeLabel |-> Undefined, processedLabel |-> Undefined,
    query |-> Undefined],
   [clientId |-> <<"cid2">>, clientSecret |-> <<"sec2">>,
    refreshToken |-> <<"ref2">>, userEmail |-> <<"me">>,
    intakeLabel |-> Some(<<"INBOX">>), processedLabel |-> Some(<<"DONE">>),
    query |-> Some(<<"is", ":", "unread">>)],
   [clientId |-> <<"cid3">>, clientSecret |-> <<"sec3">>,
    refreshToken |-> <<"ref3">>, userEmail |-> <<"me">>,
    intakeLabel |-> Some(<<"INBOX">>), processedLabel |-> Undefined,
    query |-> Some(<<>>)],
   [clientId |-> <<"cid4">>, clientSecret |-> <<"sec4">>,
    refreshToken |-> <<"ref4">>, userEmail |-> <<"me">>,
    intakeLabel |-> Undefined, processedLabel |-> Undefined,
    query |-> Some(<<"from", ":", "a", "@", "b">>)]}

AccessTokens == {<<"tokA">>, <<"tokB">>}

MessageIds == {<<"m1">>, <<"a", "/", "b">>, <<"m1", "?", "x", "#", "y">>}

\* the limits a caller passes: around zero, around the default, around the cap
Limits == (0 - MaxNeg)..1 \cup {10, 11} \cup 49..(50 + MaxOver)

MaxMessagesArgs == {Undefined} \cup {Some(n) : n \in Limits}

\* the arguments of listMessages: every limit with the configuration that
\* has no filter, every configuration with the default limit
ListArguments ==
  {a \in ClientConfigs \X AccessTokens \X MaxMessagesArgs :
     a[1].clientId = <<"cid1">> \/ a[3] = Undefined}

Statuses == {200, 204, 400, 401, 403, 500}

StatusTexts == {<<>>, <<"Unauthorized">>}

\* what the caller's request carried that is secret
Secrets(c) ==
  {c.cfg.clientSecret, c.cfg.refreshToken}
    \cup (IF c.op = "fetchAccessToken" THEN {}
          ELSE {c.accessToken, <<"Bearer ">> \o c.accessToken})

\* body texts of a failure response; the service may echo what it was sent
ErrorBodies(c) ==
  {<<>>, <<"invalid_grant">>, <<"{\"access_token\":\"tokA\",\"id\":\"m1\"}">>}
    \cup {<<"rejected ">> \o x : x \in Secrets(c)}

TokenPayloads(c) ==
  {tok @@ err :
     tok \in {EmptyObject} \cup
             {("access_token" :> x) :
                x \in {JNull, JStr(<<>>), JStr(<<"tokA">>), JStr(<<"tokB">>)}},
     err \in {EmptyObject, ("error" :> JStr(<<"oops">>)),
              ("error" :> JStr(c.cfg.clientSecret))}}

ListEntries ==
  {("id" :> JStr(<<"m1">>)) @@ ("threadId" :> JStr(<<"t1">>)),
   ("id" :> JStr(<<"a", "/", "b">>)) @@ ("threadId" :> JStr(<<"t1">>))
     @@ ("labelIds" :> JStr(<<"INBOX">>)),
   ("threadId" :> JStr(<<"t2">>)),
   ("id" :> JStr(<<>>)) @@ ("threadId" :> JStr(<<>>))}

ListPayloads ==
  {EmptyObject, ("messages" :> JNull), ("resultSizeEstimate" :> JStr(<<"0">>))}
    \cup {("messages" :> JArr(l)) :
            l \in UNION {[1..k -> ListEntries] : k \in 0..MaxMsgs}}

MessagePayloads ==
  {i @@ t @@ r :
     i \in {EmptyObject} \cup
           {("id" :> x) : x \in {JNull, JStr(<<>>), JStr(<<"m1">>),
                                 JStr(<<"a", "/", "b">>)}},
     t \in {EmptyObject, ("threadId" :> JStr(<<"t1">>))},
     r \in {EmptyObject, ("raw" :> JStr(<<"dGVzdA">>))}}

Payloads(c) ==
  CASE c.op = "fetchAccessToken" -> TokenPayloads(c)
    [] c.op = "listMessages" -> ListPayloads
    [] OTHER -> MessagePayloads

(***************************************************************************)
(* One call of an operation of the client.  The request is issued when the *)
(* call starts; the call is then suspended until fetch() resolves, and     *)
(* again until response.text() or response.json() resolves.                *)
(***************************************************************************)
NoCall == [pc |-> "idle"]

\* the command-line program is not running
NoCli == [pc |-> "off"]

\* no concurrent callers
NoPool == <<>>

NoResponse == [status |-> 0, statusText |-> <<>>, body |-> <<>>, data |-> EmptyObject]

NewCall(op, cfg, accessToken, maxMessages, id, request) ==
  [pc |-> "awaitFetch", op |-> op, cfg |-> cfg, accessToken |-> accessToken,
   maxMessages |-> maxMessages, id |-> id, request |-> request,
   response |-> NoResponse, outcome |-> NoOutcome, transport |-> "ok"]

CanCall == call.pc \in {"idle", "done"} /\ nCalls < MaxCalls

Issue(c) ==
  /\ call' = c
  /\ nCalls' = nCalls + 1
  /\ nRequests' = nRequests + 1
  /\ UNCHANGED <<env, loaded, nLoads, cli, pool>>

CallFetchAccessToken ==
  /\ CanCall
  /\ \E cfg \in ClientConfigs :
       Issue(NewCall("fetchAccessToken", cfg, <<>>, Undefined, <<>>,
                     fetchAccessTokenRequest(cfg)))

CallListMessages ==
  /\ CanCall
  /\ \E a \in ListArguments :
       Issue(NewCall("listMessages", a[1], a[2], a[3], <<>>,
                     listMessagesRequest(a[1], a[2], a[3])))

CallGetMessage ==
  /\ CanCall
  /\ \E cfg \in ClientConfigs, tok \in AccessTokens, id \in MessageIds :
       Issue(NewCall("getMessage", cfg, tok, Undefined, id,
                     getMessageRequest(cfg, tok, id)))

CallGetMessageRaw ==
  /\ CanCall
  /\ \E cfg \in ClientConfigs, tok \in AccessTokens, id \in MessageIds :
       Issue(NewCall("getMessageRaw", cfg, tok, Undefined, id,
                     getMessageRawRequest(cfg, tok, id)))

\* plausible slip: the payload is parsed whatever the status is
FetchResolvesNoStatusCheck ==
  /\ call.pc = "awaitFetch"
  /\ \E st \in Statuses, tx \in StatusTexts :
       call' = [call EXCEPT
                  !.response = [NoResponse EXCEPT !.status = st, !.statusText = tx],
                  !.pc = "awaitJson"]
  /\ UNCHANGED <<env, loaded, nLoads, cli, nCalls, nRequests, pool>>

\* await fetch(...) resolves with a response
FetchResolves ==
  /\ call.pc = "awaitFetch"
  /\ \E st \in Statuses, tx \in StatusTexts :
       call' = [call EXCEPT
                  !.response = [NoResponse EXCEPT !.status = st, !.statusText = tx],
                  !.pc = IF Ok(st) THEN "awaitJson" ELSE "awaitText"]
  /\ UNCHANGED <<env, loaded, nLoads, cli, nCalls, nRequests, pool>>

Failure(c, body) ==
  CASE c.op = "fetchAccessToken" ->
         fetchAccessTokenFailure(c.cfg, c.response.status, c.response.statusText, body)
    [] c.op = "listMessages" ->
         listMessagesFailure(c.cfg, c.accessToken, c.response.status,
                             c.response.statusText, body)
    [] OTHER ->
         getMessageFailure(c.cfg, c.accessToken, c.response.status,
                           c.response.statusText, body)

\* plausible slip: one retry of the request after a failure status
TextResolvesRetry ==
  /\ call.pc = "awaitText"
  /\ IF nRequests <= nCalls
     THEN /\ call' = [call EXCEPT !.pc = "awaitFetch", !.response = NoResponse]
          /\ nRequests' = nRequests + 1
          /\ UNCHANGED <<env, loaded, nLoads, cli, nCalls, pool>>
     ELSE /\ \E body \in ErrorBodies(call) :
               call' = [call EXCEPT !.response.body = body,
                                    !.outcome = Failure(call, body),
                                    !.pc = "done"]
          /\ UNCHANGED <<env, loaded, nLoads, cli, nCalls, nRequests, pool>>

\* await response.text() resolves on the !response.ok path: the call throws
TextResolves ==
  /\ call.pc = "awaitText"
  /\ \E body \in ErrorBodies(call) :
       call' = [call EXCEPT !.response.body = body,
                            !.outcome = Failure(call, body),
                            !.pc = "done"]
  /\ UNCHANGED <<env, loaded, nLoads, cli, nCalls, nRequests, pool>>

Result(c, data) ==
  CASE c.op = "fetchAccessToken" -> fetchAccessTokenResult(c.cfg, data)
    [] c.op = "listMessages" -> listMessagesResult(data)
    [] c.op = "getMessage" -> getMessageResult(data)
    [] OTHER -> getMessageRawResult(data)

\* plausible slip: the body is waited for until the status is 200, so a
\* success response of another status is never read
JsonResolvesOnly200 ==
  /\ call.pc = "awaitJson"
  /\ call.response.status = 200
  /\ \E data \in Payloads(call) :
       call' = [call EXCEPT !.response.data = data,
                            !.outcome = Result(call, data),
                            !.pc = "done"]
  /\ UNCHANGED <<env, loaded, nLoads, cli, nCalls, nRequests, pool>>

\* await response.json() resolves with the parsed payload
JsonResolves ==
  /\ call.pc = "awaitJson"
  /\ \E data \in Payloads(call) :
       call' = [call EXCEPT !.response.data = data,
                            !.outcome = Result(call, data),
                            !.pc = "done"]
  /\ UNCHANGED <<env, loaded, nLoads, cli, nCalls, nRequests, pool>>

Init ==
  /\ env = [n \in EnvNames |-> Undefined]
  /\ loaded = NoOutcome
  /\ nLoads = 0
  /\ cli = NoCli
  /\ call = NoCall
  /\ nCalls = 0
  /\ nRequests = 0
  /\ pool = NoPool

Next ==
  \/ CallFetchAccessToken
  \/ CallListMessages
  \/ CallGetMessage
  \/ CallGetMessageRaw
  \/ FetchResolves
  \/ TextResolves
  \/ JsonResolves

Spec == Init /\ [][Next]_vars

\* the remote service eventually delivers the response and its body
SpecLive ==
  /\ Init
  /\ [][Next]_vars
  /\ WF_vars(FetchResolves)
  /\ WF_vars(TextResolves)
  /\ WF_vars(JsonResolves)

Done == call.pc = "done"
Returned == Done /\ call.outcome.kind = "return"
Threw == Done /\ call.outcome.kind = "throw"

InitConfig ==
  /\ env \in Environments
  /\ loaded = NoOutcome
  /\ nLoads = 0
  /\ cli = NoCli
  /\ call = NoCall
  /\ nCalls = 0
  /\ nRequests = 0
  /\ pool = NoPool

\* plausible slip: the refresh token is removed from the environment once read
LoadGmailConfigScrub ==
  /\ nLoads < MaxLoads
  /\ loaded' = loadGmailConfig(env)
  /\ nLoads' = nLoads + 1
  /\ env' = [env EXCEPT !["GOOGLE_REFRESH_TOKEN"] = Undefined]
  /\ UNCHANGED <<cli, call, nCalls, nRequests, pool>>

LoadGmailConfig ==
  /\ nLoads < MaxLoads
  /\ loaded' = loadGmailConfig(env)
  /\ nLoads' = nLoads + 1
  /\ UNCHANGED <<env, cli, call, nCalls, nRequests, pool>>

NextConfig == LoadGmailConfig

SpecConfig == InitConfig /\ [][NextConfig]_vars



(***************************************************************************)
(* The gmail-list command-line program: main of src/scripts/read-message.ts*)
(* It awaits each call of the client before it goes on.                    *)
(***************************************************************************)
Digits == <<"0", "1", "2", "3", "4", "5", "6", "7", "8", "9">>

IsDigit(c) == \E i \in DOMAIN Digits : Digits[i] = c

DigitValue(c) == (CHOOSE i \in DOMAIN Digits : Digits[i] = c) - 1

RECURSIVE ParseDigits(_, _)
ParseDigits(s, acc) ==
  IF s # <<>> /\ IsDigit(Head(s))
  THEN ParseDigits(Tail(s), 10 * acc + DigitValue(Head(s)))
  ELSE acc

\* parseInt(s, 10): <<>> for NaN, <<n>> for the number n
parseInt(s) ==
  LET t == TrimStart(s)
      neg == t # <<>> /\ Head(t) = "-"
      u == IF neg THEN Tail(t) ELSE t
  IN IF u = <<>> \/ ~IsDigit(Head(u)) THEN <<>>
     ELSE <<(IF neg THEN -1 ELSE 1) * ParseDigits(u, 0)>>

\* process.argv[2]
Argvs ==
  {Undefined, Some(<<>>), Some(<<"3">>), Some(<<"0">>), Some(<<"a">>),
   Some(<<"-", "1">>), Some(<<"6", "0">>), Some(<<"2", "x">>)}

\* process.argv[2] || '5'
ArgOrDefault(argv) == IF argv = Undefined \/ argv[1] = <<>> THEN <<"5">> ELSE argv[1]

CliEnvironments ==
  {("GOOGLE_CLIENT_ID" :> Some(<<"x">>)) @@ ("GOOGLE_CLIENT_SECRET" :> Some(<<"s">>))
     @@ ("GOOGLE_REFRESH_TOKEN" :> Some(<<"r">>))
     @@ ("GMAIL_USER_EMAIL" :> Some(<<"u", "@", "h">>))
     @@ ("GMAIL_LABEL_INTAKE" :> i) @@ ("GMAIL_LABEL_PROCESSED" :> Undefined)
     @@ ("GMAIL_QUERY" :> q) :
       i \in {Undefined, Some(<<"INBOX">>)}, q \in {Undefined, Some(<<>>)}}
    \cup
  {("GOOGLE_CLIENT_ID" :> Some(<<"x">>)) @@ ("GOOGLE_CLIENT_SECRET" :> Some(<<" ">>))
     @@ ("GOOGLE_REFRESH_TOKEN" :> Undefined)
     @@ ("GMAIL_USER_EMAIL" :> Some(<<"u", "@", "h">>))
     @@ ("GMAIL_LABEL_INTAKE" :> Undefined) @@ ("GMAIL_LABEL_PROCESSED" :> Undefined)
     @@ ("GMAIL_QUERY" :> Undefined)}

CliStart(argv) ==
  [pc |-> "start", argv |-> argv, cfg |-> <<>>, accessToken |-> <<>>,
   messages |-> <<>>, fullMessage |-> EmptyObject, code |-> -1, error |-> <<>>]

\* the catch block: console.error(message); process.exit(1)
CliFail(c, msg) == [c EXCEPT !.pc = "exited", !.code = 1, !.error = msg]

\* main returns
CliEnd(c) == [c EXCEPT !.pc = "exited", !.code = 0]

\* `${x}` of a value of the payload
TemplateText(x) == IF x.t = "string" THEN x.v ELSE <<x.t>>

CliIssue(c) ==
  /\ call' = c
  /\ nCalls' = nCalls + 1
  /\ nRequests' = nRequests + 1

\* loadGmailConfig(), then fetchAccessToken(cfg) up to its first await
CliLoadConfig ==
  /\ cli.pc = "start"
  /\ loaded' = loadGmailConfig(env)
  /\ nLoads' = nLoads + 1
  /\ IF loadGmailConfig(env).kind = "throw"
     THEN /\ cli' = CliFail(cli, loadGmailConfig(env).value)
          /\ UNCHANGED <<call, nCalls, nRequests, pool>>
     ELSE LET cfg == loadGmailConfig(env).value
          IN /\ cli' = [cli EXCEPT !.pc = "awaitToken", !.cfg = cfg]
             /\ CliIssue(NewCall("fetchAccessToken", cfg, <<>>, Undefined, <<>>,
                                 fetchAccessTokenRequest(cfg)))
  /\ UNCHANGED <<env, pool>>

\* the token is there: the count argument is validated, then
\* listMessages(cfg, accessToken, messageCount) up to its first await
CliAfterToken ==
  /\ cli.pc = "awaitToken" /\ call.pc = "done"
  /\ IF call.outcome.kind = "throw"
     THEN /\ cli' = CliFail(cli, call.outcome.value)
          /\ UNCHANGED <<call, nCalls, nRequests, pool>>
     ELSE LET tok == call.outcome.value.v
              messageCount == parseInt(ArgOrDefault(cli.argv))
          IN IF messageCount = <<>> \/ messageCount[1] < 1
             THEN /\ cli' = CliFail([cli EXCEPT !.accessToken = tok],
                                    <<"Message count must be a positive number">>)
                  /\ UNCHANGED <<call, nCalls, nRequests, pool>>
             ELSE /\ cli' = [cli EXCEPT !.pc = "awaitList", !.accessToken = tok]
                  /\ CliIssue(NewCall("listMessages", cli.cfg, tok, messageCount, <<>>,
                                      listMessagesRequest(cli.cfg, tok, messageCount)))
  /\ UNCHANGED <<env, loaded, nLoads, pool>>

\* plausible slip: the last summary is read instead of the first
CliAfterListLast ==
  /\ cli.pc = "awaitList" /\ call.pc = "done"
  /\ IF call.outcome.kind = "throw"
     THEN /\ cli' = CliFail(cli, call.outcome.value)
          /\ UNCHANGED <<call, nCalls, nRequests, pool>>
     ELSE LET messages == call.outcome.value
          IN IF Len(messages) = 0
             THEN /\ cli' = CliEnd([cli EXCEPT !.messages = messages])
                  /\ UNCHANGED <<call, nCalls, nRequests, pool>>
             ELSE LET id == TemplateText(messages[Len(messages)].id)
                  IN /\ cli' = [cli EXCEPT !.pc = "awaitGet", !.messages = messages]
                     /\ CliIssue(NewCall("getMessage", cli.cfg, cli.accessToken,
                                         Undefined, id,
                                         getMessageRequest(cli.cfg, cli.accessToken, id)))
  /\ UNCHANGED <<env, loaded, nLoads, pool>>

\* the list is there: nothing more when it is empty, else
\* getMessage(cfg, accessToken, messages[0].id) up to its first await
CliAfterList ==
  /\ cli.pc = "awaitList" /\ call.pc = "done"
  /\ IF call.outcome.kind = "throw"
     THEN /\ cli' = CliFail(cli, call.outcome.value)
          /\ UNCHANGED <<call, nCalls, nRequests, pool>>
     ELSE LET messages == call.outcome.value
          IN IF Len(messages) = 0
             THEN /\ cli' = CliEnd([cli EXCEPT !.messages = messages])
                  /\ UNCHANGED <<call, nCalls, nRequests, pool>>
             ELSE LET id == TemplateText(messages[1].id)
                  IN /\ cli' = [cli EXCEPT !.pc = "awaitGet", !.messages = messages]
                     /\ CliIssue(NewCall("getMessage", cli.cfg, cli.accessToken,
                                         Undefined, id,
                                         getMessageRequest(cli.cfg, cli.accessToken, id)))
  /\ UNCHANGED <<env, loaded, nLoads, pool>>

\* the message is there: it is printed and main returns
CliAfterGet ==
  /\ cli.pc = "awaitGet" /\ call.pc = "done"
  /\ IF call.outcome.kind = "throw"
     THEN cli' = CliFail(cli, call.outcome.value)
     ELSE cli' = CliEnd([cli EXCEPT !.fullMessage = call.outcome.value])
  /\ UNCHANGED <<env, loaded, nLoads, call, nCalls, nRequests, pool>>

InitCli ==
  /\ env \in CliEnvironments
  /\ loaded = NoOutcome
  /\ nLoads = 0
  /\ cli \in {CliStart(a) : a \in Argvs}
  /\ call = NoCall
  /\ nCalls = 0
  /\ nRequests = 0
  /\ pool = NoPool

NextCli ==
  \/ CliLoadConfig
  \/ CliAfterToken
  \/ CliAfterList
  \/ CliAfterGet
  \/ FetchResolves
  \/ TextResolves
  \/ JsonResolves

SpecCli == InitCli /\ [][NextCli]_vars

(***************************************************************************)
(* Concurrent callers: each caller has its own invocation of an operation  *)
(* of src/gmail/client.ts, suspended at its awaits; the event loop resumes *)
(* one of them at a time.  The module has no variable outside the          *)
(* functions, so an invocation has its arguments and its locals only.      *)
(***************************************************************************)
Callers == 1..NumCallers

\* the request an invocation builds from its own arguments
RequestOf(c) ==
  CASE c.op = "fetchAccessToken" -> fetchAccessTokenRequest(c.cfg)
    [] c.op = "listMessages" -> listMessagesRequest(c.cfg, c.accessToken, c.maxMessages)
    [] c.op = "getMessage" -> getMessageRequest(c.cfg, c.accessToken, c.id)
    [] OTHER -> getMessageRawRequest(c.cfg, c.accessToken, c.id)

PoolConfigs == {c \in ClientConfigs : c.clientId \in {<<"cid1">>, <<"cid2">>}}

\* the invocations a caller can start
PoolCalls ==
  {NewCall("fetchAccessToken", cfg, <<>>, Undefined, <<>>,
           fetchAccessTokenRequest(cfg)) : cfg \in PoolConfigs}
    \cup
  {NewCall("listMessages", cfg, tok, Undefined, <<>>,
           listMessagesRequest(cfg, tok, Undefined)) :
     cfg \in PoolConfigs, tok \in AccessTokens}
    \cup
  {NewCall("getMessage", cfg, tok, Undefined, <<"m1">>,
           getMessageRequest(cfg, tok, <<"m1">>)) :
     cfg \in PoolConfigs, tok \in AccessTokens}

PoolStatuses == {200, 401}

PoolBodies(c) == {<<"invalid_grant">>, <<"rejected ">> \o c.cfg.clientSecret}

PoolPayloads(c) ==
  CASE c.op = "fetchAccessToken" ->
         {EmptyObject, ("access_token" :> JStr(<<"tokA">>))}
    [] c.op = "listMessages" ->
         {EmptyObject,
          ("messages" :> JArr(<< ("id" :> JStr(<<"m1">>))
                                   @@ ("threadId" :> JStr(<<"t1">>)) >>))}
    [] OTHER ->
         {EmptyObject, ("id" :> JStr(<<"m1">>)) @@ ("raw" :> JStr(<<"dGVzdA">>))}

\* a caller invokes an operation: the request is issued, the caller awaits
PoolCall ==
  /\ \E i \in Callers, c \in PoolCalls :
       /\ pool[i].pc = "idle"
       /\ pool' = [pool EXCEPT ![i] = c]
  /\ nCalls' = nCalls + 1
  /\ nRequests' = nRequests + 1
  /\ UNCHANGED <<env, loaded, nLoads, cli, call>>

\* plausible slip: the response is kept in a variable of the module, so
\* every invocation that awaits fetch sees the one that arrived
PoolFetchResolvesShared ==
  /\ \E i \in Callers, st \in PoolStatuses :
       /\ pool[i].pc = "awaitFetch"
       /\ pool' = [j \in Callers |->
                     IF pool[j].pc = "awaitFetch"
                     THEN [pool[j] EXCEPT
                             !.response = [NoResponse EXCEPT !.status = st],
                             !.pc = IF Ok(st) THEN "awaitJson" ELSE "awaitText"]
                     ELSE pool[j]]
  /\ UNCHANGED <<env, loaded, nLoads, cli, call, nCalls, nRequests>>

\* await fetch(...) of one invocation resolves
PoolFetchResolves ==
  /\ \E i \in Callers, st \in PoolStatuses :
       /\ pool[i].pc = "awaitFetch"
       /\ pool' = [pool EXCEPT
                     ![i].response = [NoResponse EXCEPT !.status = st],
                     ![i].pc = IF Ok(st) THEN "awaitJson" ELSE "awaitText"]
  /\ UNCHANGED <<env, loaded, nLoads, cli, call, nCalls, nRequests>>

\* await response.text() of one invocation resolves: it throws
PoolTextResolves ==
  /\ \E i \in Callers :
       /\ pool[i].pc = "awaitText"
       /\ \E body \in PoolBodies(pool[i]) :
            pool' = [pool EXCEPT ![i].response.body = body,
                                 ![i].outcome = Failure(pool[i], body),
                                 ![i].pc = "done"]
  /\ UNCHANGED <<env, loaded, nLoads, cli, call, nCalls, nRequests>>

\* await response.json() of one invocation resolves
PoolJsonResolves ==
  /\ \E i \in Callers :
       /\ pool[i].pc = "awaitJson"
       /\ \E data \in PoolPayloads(pool[i]) :
            pool' = [pool EXCEPT ![i].response.data = data,
                                 ![i].outcome = Result(pool[i], data),
                                 ![i].pc = "done"]
  /\ UNCHANGED <<env, loaded, nLoads, cli, call, nCalls, nRequests>>

InitPool ==
  /\ env = [n \in EnvNames |-> Undefined]
  /\ loaded = NoOutcome
  /\ nLoads = 0
  /\ cli = NoCli
  /\ call = NoCall
  /\ nCalls = 0
  /\ nRequests = 0
  /\ pool = [i \in Callers |-> NoCall]

NextPool ==
  \/ PoolCall
  \/ PoolFetchResolves
  \/ PoolTextResolves
  \/ PoolJsonResolves

SpecPool == InitPool /\ [][NextPool]_vars

(***************************************************************************)
(* The environment changes after loadGmailConfig returned: the calls of    *)
(* the client that follow are made with the configuration that was         *)
(* returned (config.ts:54-62 copies the values into a new object).         *)
(***************************************************************************)
EnvStart == {e \in CliEnvironments : missing(e) = <<>>}

ChangedNames == {"GMAIL_USER_EMAIL", "GOOGLE_REFRESH_TOKEN", "GMAIL_QUERY"}

ChangedValues == {Undefined, Some(<<"other">>)}

\* the environment is as it was when the configuration in hand was loaded
EnvAsLoaded == loaded.kind = "return" /\ loadGmailConfig(env) = loaded

\* something outside the library assigns or deletes a variable of process.env
SetEnv ==
  /\ EnvAsLoaded
  /\ \E n \in ChangedNames, v \in ChangedValues :
       /\ env[n] # v
       /\ env' = [env EXCEPT ![n] = v]
  /\ UNCHANGED <<loaded, nLoads, cli, call, nCalls, nRequests, pool>>

\* the call that is made with the configuration returned before the change
CanCallAfterChange == call.pc = "idle" /\ loaded.kind = "return" /\ ~EnvAsLoaded

EnvCallFetchAccessToken ==
  /\ CanCallAfterChange
  /\ Issue(NewCall("fetchAccessToken", loaded.value, <<>>, Undefined, <<>>,
                   fetchAccessTokenRequest(loaded.value)))

\* plausible slip: the account is read from process.env when the call is made
EnvCallListMessagesReadsEnv ==
  /\ CanCallAfterChange
  /\ \E tok \in AccessTokens :
       LET account == IF env["GMAIL_USER_EMAIL"] = Undefined THEN <<"me">>
                      ELSE env["GMAIL_USER_EMAIL"][1]
       IN Issue(NewCall("listMessages", loaded.value, tok, Undefined, <<>>,
                        listMessagesRequest([loaded.value EXCEPT !.userEmail = account],
                                            tok, Undefined)))

EnvCallListMessages ==
  /\ CanCallAfterChange
  /\ \E tok \in AccessTokens :
       Issue(NewCall("listMessages", loaded.value, tok, Undefined, <<>>,
                     listMessagesRequest(loaded.value, tok, Undefined)))

EnvCallGetMessage ==
  /\ CanCallAfterChange
  /\ \E tok \in AccessTokens :
       Issue(NewCall("getMessage", loaded.value, tok, Undefined, <<"m1">>,
                     getMessageRequest(loaded.value, tok, <<"m1">>)))

InitEnv ==
  /\ env \in EnvStart
  /\ loaded = NoOutcome
  /\ nLoads = 0
  /\ cli = NoCli
  /\ call = NoCall
  /\ nCalls = 0
  /\ nRequests = 0
  /\ pool = NoPool

NextEnv ==
  \/ LoadGmailConfig
  \/ SetEnv
  \/ EnvCallFetchAccessToken
  \/ EnvCallListMessages
  \/ EnvCallGetMessage
  \/ FetchResolves
  \/ TextResolves
  \/ JsonResolves

SpecEnv == InitEnv /\ [][NextEnv]_vars

(***************************************************************************)
(* The transport fails: fetch() rejects before any response, or reading    *)
(* the body rejects.  client.ts has no try/catch, so the rejection of the  *)
(* awaited promise is the rejection of the call.                           *)
(***************************************************************************)
\* the error the runtime rejects with
RejectionOf(kind) ==
  CASE kind = "fetch" -> <<"TypeError: fetch failed">>
    [] kind = "json" -> <<"SyntaxError: Unexpected end of JSON input">>
    [] OTHER -> <<"TypeError: terminated">>

\* await fetch(...) rejects: there is no response
FetchRejects ==
  /\ call.pc = "awaitFetch"
  /\ call' = [call EXCEPT !.transport = "fetch",
                          !.outcome = Throw(RejectionOf("fetch")),
                          !.pc = "done"]
  /\ UNCHANGED <<env, loaded, nLoads, cli, nCalls, nRequests, pool>>

\* await response.text() rejects on the !response.ok path
TextRejects ==
  /\ call.pc = "awaitText"
  /\ call' = [call EXCEPT !.transport = "text",
                          !.outcome = Throw(RejectionOf("text")),
                          !.pc = "done"]
  /\ UNCHANGED <<env, loaded, nLoads, cli, nCalls, nRequests, pool>>

\* plausible slip: listMessages catches the failure and answers "no messages"
JsonRejectsSwallowed ==
  /\ call.pc = "awaitJson"
  /\ call' = [call EXCEPT !.transport = "json",
                          !.outcome = IF call.op = "listMessages" THEN Return(<<>>)
                                      ELSE Throw(RejectionOf("json")),
                          !.pc = "done"]
  /\ UNCHANGED <<env, loaded, nLoads, cli, nCalls, nRequests, pool>>

\* await response.json() rejects: the body of the success response is not JSON
JsonRejects ==
  /\ call.pc = "awaitJson"
  /\ call' = [call EXCEPT !.transport = "json",
                          !.outcome = Throw(RejectionOf("json")),
                          !.pc = "done"]
  /\ UNCHANGED <<env, loaded, nLoads, cli, nCalls, nRequests, pool>>

NextNet ==
  \/ Next
  \/ FetchRejects
  \/ TextRejects
  \/ JsonRejects

SpecNet == Init /\ [][NextNet]_vars

(***************************************************************************)
(* Properties                                                              *)
(***************************************************************************)
Message == call.outcome.value
OkResponse == Ok(call.response.status)
IsGet == call.op \in {"getMessage", "getMessageRaw"}

\* the payload has no id, or an empty one
IdMissing(data) ==
  "id" \notin DOMAIN data \/ data["id"] = JNull \/ data["id"] = JStr(<<>>)

\* C1: getMessage, given a success status and a payload without an id (or
\* with an empty id), throws an error that mentions the missing id and
\* does not return the payload.
C1_MissingIdRejected ==
  (Done /\ IsGet /\ OkResponse /\ IdMissing(call.response.data))
    => (call.outcome.kind = "throw" /\ Contains(Message, <<"ID">>))

\* the names of the required variables that are unset or blank
AllBlank(s) == \A i \in DOMAIN s : s[i] = " "
MissingSet(e) ==
  {n \in Range(RequiredNames) : e[n] = Undefined \/ AllBlank(e[n][1])}

\* C2: when a non-empty set M of required variables is absent or blank,
\* loadGmailConfig throws and the message names every variable of M and no
\* required variable outside M.
C2_MissingNamesExact ==
  (loaded.kind # "none" /\ MissingSet(env) # {})
    => /\ loaded.kind = "throw"
       /\ \A n \in Range(RequiredNames) :
            Contains(loaded.value, <<n>>) <=> n \in MissingSet(env)

C2_Witness ==
  /\ loaded.kind = "throw"
  /\ MissingSet(env) = {"GOOGLE_CLIENT_SECRET", "GMAIL_USER_EMAIL"}
  /\ env["GOOGLE_CLIENT_SECRET"] = Some(<<" ", " ">>)
  /\ env["GMAIL_USER_EMAIL"] = Undefined
  /\ env["GOOGLE_CLIENT_ID"] = Some(<<" ", "x">>)

\* what fetchAccessToken may throw for a response, whatever the configuration
TokenErrorText(r) ==
  IF Ok(r.status)
  THEN <<"Access token not found in response: ">> \o Stringify(r.data)
  ELSE <<"Failed to fetch access token: ", ToString(r.status), " ">>
         \o r.statusText \o <<"\nResponse: ">> \o r.body

ApiErrorPrefix ==
  IF call.op = "listMessages" THEN "Failed to list messages: "
  ELSE "Failed to get message: "

CallerSecrets ==
  {call.accessToken, <<"Bearer ">> \o call.accessToken,
   call.cfg.clientSecret, call.cfg.refreshToken}

TokenMissing(data) ==
  \/ "access_token" \notin DOMAIN data
  \/ data["access_token"] = JNull
  \/ data["access_token"] = JStr(<<>>)

\* C5: fetchAccessToken, given a success status and a payload whose
\* access_token is absent or falsy (the empty string included), throws an
\* error saying the token was not found; every value it returns is a
\* non-empty token.
C5_TokenRequired ==
  /\ (Done /\ call.op = "fetchAccessToken" /\ OkResponse
        /\ TokenMissing(call.response.data))
       => /\ call.outcome.kind = "throw"
          /\ StartsWith(Message, <<"Access token not found in response: ">>)
  /\ (Returned /\ call.op = "fetchAccessToken")
       => /\ call.outcome.value.t = "string"
          /\ call.outcome.value.v # <<>>

C5_Witness ==
  /\ Threw /\ call.op = "fetchAccessToken" /\ OkResponse
  /\ "access_token" \in DOMAIN call.response.data
  /\ call.response.data["access_token"] = JStr(<<>>)

\* C6: fetchAccessToken, given a success status and a payload whose
\* access_token is a non-empty token T, returns exactly T, whatever the
\* other fields of the payload and whatever the configuration.
C6_TokenReturnedUnchanged ==
  (Done /\ call.op = "fetchAccessToken" /\ OkResponse
     /\ ~TokenMissing(call.response.data))
    => /\ call.outcome.kind = "return"
       /\ call.outcome.value = call.response.data["access_token"]

C6_Witness ==
  /\ Returned /\ call.op = "fetchAccessToken"
  /\ call.response.data["access_token"] = JStr(<<"tokB">>)
  /\ "error" \in DOMAIN call.response.data
  /\ call.outcome.value = JStr(<<"tokB">>)

\* the message carries the numeric status, the status text and the body
CarriesResponse(msg, r) ==
  /\ Contains(msg, <<ToString(r.status), " ">> \o r.statusText)
  /\ Contains(msg, <<"\nResponse: ">> \o r.body)

\* C7: fetchAccessToken, given a non-success status, throws an error whose
\* message carries the numeric status, the status text and the raw body.
C7_TokenFailureCarriesResponse ==
  (Done /\ call.op = "fetchAccessToken" /\ ~OkResponse)
    => /\ call.outcome.kind = "throw"
       /\ CarriesResponse(Message, call.response)

C7_Witness ==
  /\ Threw /\ call.op = "fetchAccessToken"
  /\ call.response.status = 400
  /\ call.response.statusText = <<"Unauthorized">>
  /\ call.response.body = <<"invalid_grant">>

\* C8: listMessages and getMessage, given a non-success status, throw an
\* error whose message carries the numeric status, the status text and the
\* body; no value (no empty list) is returned.
C8_ApiFailureCarriesResponse ==
  (Done /\ call.op # "fetchAccessToken" /\ ~OkResponse)
    => /\ call.outcome.kind = "throw"
       /\ CarriesResponse(Message, call.response)

C8_Witness ==
  /\ Threw /\ call.op = "listMessages"
  /\ call.response.status = 500
  /\ call.response.body = <<"invalid_grant">>

\* C9: every call issues exactly one request whatever its outcome: after n
\* calls exactly n requests have been issued.
C9_OneRequestPerCall == nRequests = nCalls

C9_Witness == nCalls = 2 /\ nRequests = 2 /\ Threw /\ ~OkResponse

\* C10: the maxResults parameter of the request of listMessages is
\* min(limit, 50), limit being 10 when the caller omits it.
ExpectedMaxResults ==
  LET limit == IF call.maxMessages = <<>> THEN 10 ELSE call.maxMessages[1]
  IN IF limit > 50 THEN "50" ELSE ToString(limit)

C10_MaxResultsClamped ==
  (call.pc # "idle" /\ call.op = "listMessages")
    => /\ ParamValues(call.request.params, "maxResults") = {<<ExpectedMaxResults>>}
       /\ Contains(call.request.url, <<"maxResults", "=", ExpectedMaxResults>>)

C10_Witness ==
  /\ call.pc = "awaitFetch" /\ call.op = "listMessages"
  /\ call.maxMessages = <<52>>
  /\ ParamValues(call.request.params, "maxResults") = {<<"50">>}

IsList == call.pc # "idle" /\ call.op = "listMessages"

\* C11 (as stated): the request of listMessages carries labelIds exactly
\* when config.intakeLabel is present and q exactly when config.query is
\* present, each with the configuration value.
C11_FiltersWhenPresent ==
  IsList
    => /\ ParamValues(call.request.params, "labelIds") =
            (IF call.cfg.intakeLabel = <<>> THEN {} ELSE {call.cfg.intakeLabel[1]})
       /\ ParamValues(call.request.params, "q") =
            (IF call.cfg.query = <<>> THEN {} ELSE {call.cfg.query[1]})

\* C11 (amended): the request of listMessages carries labelIds exactly
\* when config.intakeLabel is present and not the empty string, and q
\* exactly when config.query is present and not the empty string, each
\* independently of the other and with the configuration value as it is.
C11_FiltersWhenNonEmpty ==
  IsList
    => /\ ParamValues(call.request.params, "labelIds") =
            (IF call.cfg.intakeLabel \in {<<>>, << <<>> >>} THEN {}
             ELSE {call.cfg.intakeLabel[1]})
       /\ ParamValues(call.request.params, "q") =
            (IF call.cfg.query \in {<<>>, << <<>> >>} THEN {}
             ELSE {call.cfg.query[1]})

C11_Witness ==
  /\ IsList
  /\ call.cfg.intakeLabel # <<>>
  /\ call.cfg.query = << <<"is", ":", "unread">> >>
  /\ ParamValues(call.request.params, "labelIds") = {<<"INBOX">>}
  /\ ParamValues(call.request.params, "q") = {<<"is", ":", "unread">>}

\* C12: listMessages, given a success status and a payload without a
\* messages field, returns the empty sequence and does not fail.
C12_NoMessagesFieldIsEmpty ==
  (IsList /\ Done /\ OkResponse /\ "messages" \notin DOMAIN call.response.data)
    => call.outcome = [kind |-> "return", value |-> <<>>]

C12_Witness ==
  /\ IsList /\ Returned /\ OkResponse
  /\ DOMAIN call.response.data = {"resultSizeEstimate"}
  /\ call.outcome.value = <<>>

HasList(data) == "messages" \in DOMAIN data /\ data["messages"].t = "array"

FieldOrUndefined(obj, f) ==
  IF f \in DOMAIN obj THEN obj[f] ELSE [t |-> "undefined", v |-> <<>>]

\* C13: listMessages, given a success status and a messages list, returns
\* a sequence of the same length whose i-th element is the id and the
\* threadId, and nothing else, of the i-th remote entry.
C13_ListMappedInOrder ==
  (IsList /\ Done /\ OkResponse /\ HasList(call.response.data))
    => LET remote == call.response.data["messages"].v
       IN /\ call.outcome.kind = "return"
          /\ Len(call.outcome.value) = Len(remote)
          /\ \A i \in 1..Len(remote) :
               /\ DOMAIN call.outcome.value[i] = {"id", "threadId"}
               /\ call.outcome.value[i].id = FieldOrUndefined(remote[i], "id")
               /\ call.outcome.value[i].threadId =
                    FieldOrUndefined(remote[i], "threadId")

C13_Witness ==
  /\ IsList /\ Returned /\ HasList(call.response.data)
  /\ Len(call.outcome.value) = 2
  /\ call.outcome.value[1].id = JStr(<<"a", "/", "b">>)
  /\ call.outcome.value[2].id = JStr(<<"m1">>)
  /\ "labelIds" \in DOMAIN call.response.data["messages"].v[1]

NonEmptyString(x) == x.t = "string" /\ x.v # <<>>

\* C14: every MessageSummary that listMessages returns has a non-empty
\* string id and a non-empty string threadId.
C14_SummariesWellFormed ==
  (IsList /\ Returned)
    => \A i \in 1..Len(call.outcome.value) :
         /\ NonEmptyString(call.outcome.value[i].id)
         /\ NonEmptyString(call.outcome.value[i].threadId)

\* C15: loadGmailConfig returns a configuration only if all four required
\* variables are present and non-blank; in every other environment it
\* throws, and no partially populated configuration is returned.
C15_AllOrNothing ==
  (loaded.kind # "none")
    => /\ loaded.kind \in {"return", "throw"}
       /\ loaded.kind = "return" <=> MissingSet(env) = {}
       /\ loaded.kind = "return"
            => \A f \in {"clientId", "clientSecret", "refreshToken", "userEmail"} :
                 \E i \in DOMAIN loaded.value[f] : loaded.value[f][i] # " "

C15_Witness ==
  /\ loaded.kind = "return"
  /\ env["GOOGLE_CLIENT_ID"] = Some(<<" ", "x">>)
  /\ env["GMAIL_USER_EMAIL"] = Some(<<"x", " ">>)

\* the environment with every blank required variable unset
Canonical(e) ==
  [n \in DOMAIN e |->
     IF n \in MissingSet(e) THEN <<>> ELSE e[n]]

\* C16: a required variable that is unset, empty or whitespace-only is
\* treated the same way: the call throws, the variable is named in the
\* message, and the outcome is the one the call has when the variable is
\* unset.
C16_BlankIsUnset ==
  (loaded.kind # "none")
    => /\ \A n \in Range(RequiredNames) :
            (env[n] = <<>> \/ env[n] = << <<>> >> \/ AllBlank(env[n][1]))
              => (loaded.kind = "throw" /\ Contains(loaded.value, <<n>>))
       /\ loaded = loadGmailConfig(Canonical(env))

C16_Witness ==
  /\ loaded.kind = "throw"
  /\ env["GOOGLE_CLIENT_ID"] = <<>>
  /\ env["GOOGLE_CLIENT_SECRET"] = << <<>> >>
  /\ env["GOOGLE_REFRESH_TOKEN"] = << <<" ", " ">> >>
  /\ env["GMAIL_USER_EMAIL"] = << <<"x">> >>
  /\ ~Contains(loaded.value, <<"GMAIL_USER_EMAIL">>)

\* C17: with all four required variables non-blank, loadGmailConfig
\* returns a configuration whose required fields are the environment
\* values as read and whose optional fields are the environment values
\* verbatim, an unset optional variable giving an undefined field.
C17_FieldsVerbatim ==
  (loaded.kind # "none" /\ MissingSet(env) = {})
    => /\ loaded.kind = "return"
       /\ loaded.value.clientId = env["GOOGLE_CLIENT_ID"][1]
       /\ loaded.value.clientSecret = env["GOOGLE_CLIENT_SECRET"][1]
       /\ loaded.value.refreshToken = env["GOOGLE_REFRESH_TOKEN"][1]
       /\ loaded.value.userEmail = env["GMAIL_USER_EMAIL"][1]
       /\ loaded.value.intakeLabel = env["GMAIL_LABEL_INTAKE"]
       /\ loaded.value.processedLabel = env["GMAIL_LABEL_PROCESSED"]
       /\ loaded.value.query = env["GMAIL_QUERY"]

C17_Witness ==
  /\ loaded.kind = "return"
  /\ loaded.value.clientSecret = <<" ", "x">>
  /\ loaded.value.intakeLabel = <<>>
  /\ loaded.value.processedLabel = << <<>> >>
  /\ loaded.value.query = << <<"x">> >>

\* C18: a call of loadGmailConfig leaves the environment unchanged and
\* issues no request, and a call that follows another one in the same
\* environment has the same outcome.
C18_LoadIdempotent ==
  [][(nLoads' = nLoads + 1)
       => /\ env' = env
          /\ nRequests' = nRequests
          /\ call' = call
          /\ (nLoads >= 1 => loaded' = loaded)]_vars

C18_Witness == nLoads = 2 /\ loaded.kind = "return" /\ nRequests = 0

\* C19: getMessage, given a success status and a payload with a non-empty
\* id, returns that payload unchanged, every field as received.
C19_MessageReturnedUnchanged ==
  (Done /\ IsGet /\ OkResponse /\ ~IdMissing(call.response.data))
    => call.outcome = [kind |-> "return", value |-> call.response.data]

C19_Witness ==
  /\ Returned /\ call.op = "getMessage"
  /\ DOMAIN call.outcome.value = {"id", "threadId", "raw"}
  /\ call.outcome.value["id"] = JStr(<<"m1">>)

\* the command-line program got a message: every step succeeded and the
\* list was not empty
CliGotMessage ==
  cli.pc = "exited" /\ cli.code = 0 /\ Len(cli.messages) > 0

Alone(c) ==
  IF Ok(c.response.status) THEN Result(c, c.response.data)
  ELSE Failure(c, c.response.body)

\* C21: concurrent calls of fetchAccessToken, listMessages and getMessage
\* do not interfere: under every interleaving of their suspension points a
\* step of one call leaves every other call as it was, and each call's
\* request and each call's result or error are those the call has alone
\* with its own arguments and its own response.
C21_NoInterference ==
  /\ [](\A i \in DOMAIN pool :
          /\ pool[i].pc # "idle" => pool[i].request = RequestOf(pool[i])
          /\ pool[i].pc = "done" => pool[i].outcome = Alone(pool[i]))
  /\ [][\A i \in DOMAIN pool :
          pool'[i] # pool[i] => \A j \in DOMAIN pool \ {i} : pool'[j] = pool[j]]_vars

C21_Witness ==
  /\ pool # NoPool
  /\ pool[1].pc = "done" /\ pool[2].pc = "done"
  /\ pool[1].op = "getMessage" /\ pool[2].op = "fetchAccessToken"
  /\ pool[1].cfg # pool[2].cfg
  /\ pool[1].outcome.kind = "return" /\ pool[2].outcome.kind = "throw"
  /\ ~Ok(pool[2].response.status)

\* C22: fetchAccessToken, listMessages and getMessage never read the
\* process environment: a call made after the environment changed is made
\* with the configuration that loadGmailConfig returned, its request is
\* the one built from its arguments, its result or error the one computed
\* from its arguments and its response, and a change of the environment
\* leaves the configuration in hand and the call in progress as they were.
C22_EnvironmentNotRead ==
  /\ [](call.pc # "idle"
          => /\ call.request = RequestOf(call)
             /\ call.pc = "done" => call.outcome = Alone(call))
  /\ [][/\ nCalls' = nCalls + 1
             => /\ call'.cfg = loaded.value
                /\ call'.request = RequestOf([call' EXCEPT !.cfg = loaded.value])
        /\ env' # env => (loaded' = loaded /\ call' = call)]_vars

C22_Witness ==
  /\ Returned /\ call.op = "listMessages"
  /\ call.cfg = loaded.value
  /\ env["GMAIL_USER_EMAIL"] = Some(<<"other">>)
  /\ call.cfg.userEmail = <<"u", "@", "h">>
  /\ Contains(call.request.url, <<"u", "%40", "h">>)

ApiBase == <<"https://gmail.googleapis.com/gmail/v1/users/">>

OnlyBearer(c) ==
  /\ DOMAIN c.request.headers = {"Authorization"}
  /\ c.request.headers["Authorization"] = <<"Bearer ">> \o c.accessToken

\* C23: the request of listMessages is a GET to the messages collection of
\* the account config.userEmail, the account percent-encoded in the path,
\* with exactly one header, Authorization: 'Bearer ' and the access token
\* the caller passed.
C23_ListRequestShape ==
  IsList
    => /\ call.request.method = "GET"
       /\ StartsWith(call.request.url,
                     ApiBase \o encodeURIComponent(call.cfg.userEmail)
                       \o <<"/messages", "?">>)
       /\ ~Contains(call.request.url, <<"@">>)
       /\ OnlyBearer(call)

C23_Witness ==
  /\ IsList
  /\ call.cfg.userEmail = <<"u", "@", "h">>
  /\ call.accessToken = <<"tokB">>
  /\ StartsWith(call.request.url, ApiBase \o <<"u", "%40", "h", "/messages", "?">>)
  /\ call.request.headers = ("Authorization" :> <<"Bearer ", "tokB">>)

\* the URL of a get request whose format parameter is fmt
GetUrl(c, fmt) ==
  ApiBase \o encodeURIComponent(c.cfg.userEmail) \o <<"/messages/">> \o c.id
    \o <<fmt>>

IsStarted == call.pc # "idle"

PayloadCheckPasses(c) ==
  CASE c.op = "fetchAccessToken" -> ~TokenMissing(c.response.data)
    [] c.op = "getMessageRaw" -> ~IdMissing(c.response.data)
    [] OTHER -> TRUE

BelowOne ==
  IsList /\ call.maxMessages # Undefined /\ call.maxMessages[1] < 1

\* C26: listMessages enforces no lower bound on the limit: a limit below 1
\* (0 and negative values) is sent as maxResults unchanged, the request is
\* issued, and the call is neither rejected for its limit nor changed: its
\* outcome is the one its response gives.
C26_NoLowerBound ==
  BelowOne
    => /\ maxResultsOf(call.maxMessages) = call.maxMessages[1]
       /\ ParamValues(call.request.params, "maxResults") =
            {ToStr(call.maxMessages[1])}
       /\ call.request = RequestOf(call)
       /\ nRequests >= 1
       /\ call.pc # "done" => call.outcome = NoOutcome
       /\ call.pc = "done" => call.outcome = Alone(call)

C26_Witness ==
  /\ BelowOne /\ Returned
  /\ call.maxMessages = Some(0 - 1)
  /\ ParamValues(call.request.params, "maxResults") = {<<"-1">>}
  /\ Contains(call.request.url, <<"maxResults", "=", "-1">>)

\* the symbols that begin the query and the fragment of a URL
QueryStarts == {"?", "?format=full", "?format=raw"}

Delimiters == QueryStarts \cup {"#"}

\* the index of the first symbol of url that is in the set marks, or
\* Len(url) + 1 when there is none
FirstOf(url, marks) ==
  IF \E i \in DOMAIN url : url[i] \in marks
  THEN CHOOSE i \in DOMAIN url :
         url[i] \in marks /\ \A j \in 1..(i - 1) : url[j] \notin marks
  ELSE Len(url) + 1

\* the path of a URL: what precedes the query and the fragment
UrlPath(url) == SubSeq(url, 1, FirstOf(url, Delimiters) - 1)

\* the query of a URL: from the first '?' up to the fragment; empty when the
\* fragment begins first
UrlQuery(url) ==
  LET q == FirstOf(url, QueryStarts)
      f == FirstOf(url, {"#"})
  IN IF q < f THEN SubSeq(url, q, f - 1) ELSE <<>>

HasSymbol(s, c) == \E i \in DOMAIN s : s[i] = c

FormatOf(c) == IF c.op = "getMessage" THEN "?format=full" ELSE "?format=raw"

\* the collection the messages of the account are in
MessagesPath(c) ==
  ApiBase \o encodeURIComponent(c.cfg.userEmail) \o <<"/messages/">>

\* C27: getMessage percent-encodes the account but inserts the message id
\* into the URL verbatim.  With an id free of '/', '?' and '#' the request
\* addresses the message of that id in the collection with the format
\* query; an id with '/' addresses a resource below another one, an id
\* with '?' begins the query itself, an id with '#' puts the format query
\* in the fragment.
C27_IdVerbatim ==
  (IsStarted /\ IsGet)
    => LET url == call.request.url
           id == call.id
       IN /\ url = MessagesPath(call) \o id \o <<FormatOf(call)>>
          /\ ~HasSymbol(MessagesPath(call), "@")
          /\ (~HasSymbol(id, "/") /\ ~HasSymbol(id, "?") /\ ~HasSymbol(id, "#"))
               => /\ UrlPath(url) = MessagesPath(call) \o id
                  /\ UrlQuery(url) = <<FormatOf(call)>>
          /\ HasSymbol(id, "/")
               => /\ UrlPath(url) = MessagesPath(call) \o id
                  /\ HasSymbol(SubSeq(UrlPath(url), Len(MessagesPath(call)) + 1,
                                      Len(UrlPath(url))), "/")
          /\ HasSymbol(id, "?")
               => /\ UrlPath(url) # MessagesPath(call) \o id
                  /\ UrlQuery(url) # <<FormatOf(call)>>
          /\ HasSymbol(id, "#")
               => /\ UrlPath(url) # MessagesPath(call) \o id
                  /\ ~HasSymbol(UrlQuery(url), FormatOf(call))

C27_Witness ==
  /\ IsStarted /\ call.op = "getMessage"
  /\ call.id = <<"m1", "?", "x", "#", "y">>
  /\ call.cfg.userEmail = <<"u", "@", "h">>
  /\ UrlPath(call.request.url) = ApiBase \o <<"u", "%40", "h", "/messages/", "m1">>
  /\ UrlQuery(call.request.url) = <<"?", "x">>

\* C28: when the transport fails (the request is rejected before any
\* response, or the body of a success response cannot be parsed as JSON),
\* the call rejects with that failure: no value is returned (listMessages
\* returns no empty list), nothing of a response is used, and no further
\* request is issued.
C28_TransportFailurePropagates ==
  /\ nRequests = nCalls
  /\ (Done /\ call.transport # "ok")
       => /\ call.outcome = Throw(RejectionOf(call.transport))
          /\ call.response.data = EmptyObject
          /\ call.response.body = <<>>
          /\ call.transport = "fetch" => call.response = NoResponse
          /\ call.transport = "json" => OkResponse

C28_Witness ==
  /\ Threw /\ call.op = "listMessages" /\ call.transport = "json"
  /\ call.response.status = 204
  /\ nCalls = 2 /\ nRequests = 2

\* the text is the decimal notation of an integer that is at least one
IsPositiveInteger(s) ==
  /\ s # <<>>
  /\ \A i \in DOMAIN s : IsDigit(s[i])
  /\ ParseDigits(s, 0) >= 1

\* a count argument was given and it is not a positive integer
BadCount ==
  cli.argv # Undefined /\ cli.argv[1] # <<>> /\ ~IsPositiveInteger(cli.argv[1])

\* C29: the gmail-list program runs its steps in the order load config,
\* token exchange, count validation, list, get of the first summary: a
\* step starts only after the previous one succeeded, a failure at any
\* step is logged and ends the process with exit code 1 without any later
\* step, a count argument that is not a positive integer prevents the list
\* request, and with an empty list no get request is issued.
C29_CliStepsInOrder ==
  /\ [](cli.pc # "off"
          => /\ nRequests = nCalls
             /\ cli.pc = "start" => (nLoads = 0 /\ nCalls = 0)
             /\ cli.pc = "awaitToken"
                  => (loaded.kind = "return" /\ nCalls = 1
                        /\ call.op = "fetchAccessToken")
             /\ cli.pc = "awaitList"
                  => (nCalls = 2 /\ call.op = "listMessages"
                        /\ call.accessToken = cli.accessToken)
             /\ cli.pc = "awaitGet"
                  => (nCalls = 3 /\ call.op = "getMessage"
                        /\ Len(cli.messages) > 0)
             /\ (cli.pc = "exited" /\ cli.code = 1)
                  => (cli.error # <<>> /\ call.pc \in {"idle", "done"})
             /\ (cli.pc = "exited" /\ loaded.kind = "throw") => nCalls = 0
             /\ (cli.pc = "exited" /\ cli.code = 0)
                  => nCalls = (IF Len(cli.messages) = 0 THEN 2 ELSE 3)
             /\ BadCount => nCalls <= 1)
  /\ [][/\ cli.pc # "exited"
        /\ (cli.pc \in {"awaitToken", "awaitList", "awaitGet"}
              /\ call.pc = "done" /\ call.outcome.kind = "throw")
             => /\ cli'.pc = "exited" /\ cli'.code = 1
                /\ cli'.error = call.outcome.value
                /\ nCalls' = nCalls]_vars

Awaiting == call.pc \in {"awaitFetch", "awaitText", "awaitJson"}

\* C30: a call of fetchAccessToken, listMessages or getMessage eventually
\* completes (returns or throws) provided the remote service eventually
\* delivers the response and its body; there is no timeout and no
\* cancellation: a call that awaits goes on only when the response or the
\* body arrives, and completes only with a response in hand.
C30_CallCompletes ==
  /\ Awaiting ~> (Done /\ call.outcome.kind \in {"return", "throw"})
  /\ [][/\ call.pc = "awaitFetch"
             => (call'.pc \in {"awaitText", "awaitJson"}
                   /\ call'.response.status \in Statuses)
        /\ call.pc \in {"awaitText", "awaitJson"} => call'.pc = "done"
        /\ (call'.pc = "done" /\ call.pc # "done")
             => (call.pc \in {"awaitText", "awaitJson"}
                   /\ call.response.status \in Statuses)]_vars

C30_Witness ==
  /\ Returned /\ call.op = "listMessages" /\ call.response.status = 204
  /\ nCalls = 2

====
